---- MODULE Spec2Model ----
(***************************************************************************)
(* Multi-device training of the DSSM ranker (scripts/cedr/train.py):      *)
(* main_cli partitions the training query ids over the ranks, spawns one  *)
(* process per non-master rank and runs rank 0 itself; every rank runs    *)
(* do_train, whose epochs call train_iteration (gradient accumulation,    *)
(* optimizer / scheduler steps, mid-epoch parameter averaging) followed   *)
(* by the post-epoch parameter averaging and, in the master, validation   *)
(* and checkpointing.                                                      *)
(***************************************************************************)
EXTENDS Integers, Sequences, FiniteSets, TLC

\* ------------------------------------------------------------------ bounds
MaxDev == 3
MaxPairs == 5
MaxBatch == 2
MaxBackprop == 2
MaxSync == 2
MaxBpte == 1
MaxEpochs == 2
MaxScore == 1
MaxSeqBatch == 3
MaxSeqLen == 2
MaxData == 1
MaxEntries == 2
MaxKeys == 2
MaxStrLen == 1
MaxIntVal == 1

\* ------------------------------------------------------------- state
VARIABLES
    args,           \* the parsed command line (constant after Init)
    mainPc,         \* position of main_cli in the invoking process
    loopIdx,        \* index into the rank loop of main_cli (1-based)
    processes,      \* list of spawned subprocess ranks, in spawn order
    joinIdx,        \* number of subprocesses joined and checked so far
    pgDestroyed,    \* dist.destroy_process_group() has been called
    runLog,         \* history: <<rank, "sub" | "main", is_master_proc>> per do_train call
    train_pairs,    \* per rank: the list of query ids handed to do_train
    pc,             \* per rank: position inside do_train / train_iteration
    pgInit,         \* per rank: entered dist.init_process_group
    epoch,          \* per rank: loop variable of do_train
    max_train_qty,  \* per rank: item quota of the current epoch
    total_qty,      \* per rank: train_iteration's total_qty
    total_prev_qty, \* per rank: train_iteration's total_prev_qty
    batch_id,       \* per rank: train_iteration's batch_id
    optSteps,       \* per rank: optimizer.step() calls in the current epoch
    schedSteps,     \* per rank: scheduler.step() calls in the current epoch
    syncAt,         \* per rank: optimizer steps of this epoch that triggered a mid-epoch averaging
    params,         \* per rank: the replica's parameter values (rationals)
    arCnt,          \* per rank: avg_model_params calls entered
    arDone,         \* per rank: avg_model_params calls completed
    arIn,           \* per all-reduce round: the values each rank contributed
    avgCalls,       \* per rank, per epoch: avg_model_params calls entered in that epoch
    postAvg,        \* per rank: post-epoch averagings completed
    stepsSinceAvg,  \* per rank: optimizer steps since the last completed averaging
    valid_score,    \* master: score of the last validation, <<>> before the first
    top_valid_score,\* master: best validation score so far, <<>> for None
    cache,          \* per rank: the model's text -> tokens memo holds entries
    files,          \* files written under model_out_dir, as records
    scoreLog,       \* history: the validation score of every epoch validated so far
    bestEpochs,     \* history: the epochs in which model.best was written
    total_loss,     \* per rank: train_iteration's total_loss
    lossLog,        \* per rank, history: <<loss, count>> of every record of the current epoch
    lossRet,        \* per rank: what the last train_iteration returned, <<>> before the first
    optimizer,      \* per rank: the parameter groups of the epoch's optimizer, <<>> before the first
    enc,            \* a DssmBertRanker object: per encoder and state-dict key, data and requires_grad
    disk,           \* the state-dict files of DssmBertRanker.save / load, as records
    call,           \* the last call made on the DssmBertRanker object and its outcome
    gradAcc,        \* per rank: items whose gradients are summed in the parameters' .grad
    appliedItems,   \* per rank, history: items whose gradients an optimizer step of this epoch applied
    discarded,      \* per rank, history: items whose gradients were zeroed without a step
    inpData,        \* parse_exper_conf: the parsed input JSON
    entryId,        \* parse_exper_conf: int(sys.argv[2])
    confPc,         \* parse_exper_conf: position in the script
    resList,        \* parse_exper_conf: the lines built so far
    res,            \* parse_exper_conf: the text to write
    outFile         \* parse_exper_conf: the output file

vars == <<args, mainPc, loopIdx, processes, joinIdx, pgDestroyed, runLog,
          train_pairs, pc, pgInit, epoch, max_train_qty, total_qty,
          total_prev_qty, batch_id, optSteps, schedSteps, syncAt, params,
          arCnt, arDone, arIn, avgCalls, postAvg, stepsSinceAvg,
          valid_score, top_valid_score, cache, files, scoreLog, bestEpochs,
          total_loss, lossLog, lossRet, optimizer, enc, disk, call,
          gradAcc, appliedItems, discarded,
          inpData, entryId, confPc, resList, res, outFile>>

mainVars == <<mainPc, loopIdx, processes, joinIdx, pgDestroyed, runLog, train_pairs>>
iterVars == <<max_train_qty, total_qty, total_prev_qty, batch_id, optSteps, schedSteps, syncAt>>
arVars == <<arCnt, arDone, arIn, avgCalls, postAvg>>
validVars == <<valid_score, top_valid_score, files, scoreLog, bestEpochs>>
lossVars == <<total_loss, lossLog, lossRet>>
objVars == <<enc, disk, call>>
gradVars == <<gradAcc, appliedItems, discarded>>
confVars == <<inpData, entryId, confPc, resList, res, outFile>>
rankVars == <<pc, pgInit, epoch, params, stepsSinceAvg, cache>>

Ranks == 0 .. (args.device_qty - 1)

Min(a, b) == IF a < b THEN a ELSE b
Max(a, b) == IF a > b THEN a ELSE b

\* ------------------------------------------------------- rational numbers
RECURSIVE GCD(_, _)
GCD(a, b) == IF b = 0 THEN a ELSE GCD(b, a % b)

Abs(n) == IF n < 0 THEN -n ELSE n

RNorm(n, d) == LET g == GCD(Abs(n), d) IN <<n \div g, d \div g>>

RAdd(x, y) == RNorm(x[1] * y[2] + y[1] * x[2], x[2] * y[2])

RDivInt(x, k) == RNorm(x[1], x[2] * k)

RECURSIVE RSumUpTo(_, _)
\* sum of f[0] .. f[n]
RSumUpTo(f, n) == IF n = 0 THEN f[0] ELSE RAdd(RSumUpTo(f, n - 1), f[n])

\* ------------------------------------------------------------- the model
\* model.parameters(): the two encoders of DssmBertRanker, each a BERT body and a head
ParamNames == <<"query_encoder.bert", "query_encoder.fc", "doc_encoder.bert", "doc_encoder.fc">>

NumParams == Len(ParamNames)

\* the dotted name of parameter i in model.named_parameters(), split at the
\* dots: the attribute of DssmBertRanker, then the attribute of BertSepObjEncoder
ParamPath(i) ==
    <<IF i <= 2 THEN "query_encoder" ELSE "doc_encoder", IF i % 2 = 1 THEN "bert" ELSE "fc">>

\* the `if False:` of BertSepObjEncoder.__init__ freezes nothing
requires_grad(i) == TRUE

\* every process receives the same model object
InitParams == [i \in 1 .. NumParams |-> <<i, 1>>]

\* what one optimizer step of rank r adds to a parameter: the ranks train on
\* different pairs, so their updates differ
Gradient(r) == r * r + 1

\* ----------------------------------------------------- DssmBertRanker
\* lines 113-114
Encoders == {"query_encoder", "doc_encoder"}

\* the keys of an encoder's state_dict(): its transformer and its head
Keys == {"bert.weight", "fc.weight"}

\* line 29
BERT_SIZE == 768

\* line 111: the default output dimensionality
dim == 128

\* lines 26-39: the attributes BertSepObjEncoder.__init__ assigns
EncoderAttrs ==
    {"BERT_MODEL", "l2_normalize", "CHANNELS", "BERT_SIZE", "bert", "tokenizer", "dropout", "fc"}

\* lines 65-107: the outcome of encode_bert on a BATCH x LEN token matrix;
\* reading an attribute that was never assigned raises AttributeError
encode_bert(BATCH, LEN) ==
    IF LEN <= 0
    THEN IF "dim" \in EncoderAttrs
         THEN [raised |-> "none", bert_called |-> FALSE, shape |-> <<BATCH, dim>>, zero |-> TRUE]
         ELSE [raised |-> "AttributeError", bert_called |-> FALSE, shape |-> <<>>, zero |-> FALSE]
    ELSE [raised |-> "none", bert_called |-> TRUE, shape |-> <<BATCH, BERT_SIZE>>, zero |-> FALSE]

\* lines 46-51: fc = Linear(BERT_SIZE, dim) needs BERT_SIZE input columns and
\* adds its bias
forward(BATCH, LEN) ==
    LET cls_reps == encode_bert(BATCH, LEN)
    IN  IF cls_reps.raised # "none" THEN cls_reps
        ELSE IF cls_reps.shape[2] # BERT_SIZE
        THEN [cls_reps EXCEPT !.raised = "RuntimeError", !.shape = <<>>, !.zero = FALSE]
        ELSE [cls_reps EXCEPT !.shape = <<BATCH, dim>>, !.zero = FALSE]

\* lines 130-131, 134-135
EncPath(path, e) == path \o (IF e = "query_encoder" THEN "_query" ELSE "_doc")

\* os.path.exists
Exists(fs, path) == \E f \in fs : f.path = path

\* torch.load of an existing file
FileState(fs, path) == (CHOOSE f \in fs : f.path = path).state

SavedState_All(e) == [k \in Keys |-> enc[e][k].data]

\* lines 54-59: the entries that require gradient, as plain data
SavedState(e) == [k \in {x \in Keys : enc[e][x].requires_grad} |-> enc[e][k].data]

\* line 63: load_state_dict(strict=False) copies the entries the encoder has
\* and leaves the others
LoadStateDict(st, sd) ==
    [k \in Keys |-> IF k \in DOMAIN sd THEN [st[k] EXCEPT !.data = sd[k]] ELSE st[k]]

\* line 136
LoadFallsBack(fs, path) ==
    ~Exists(fs, EncPath(path, "query_encoder")) \/ ~Exists(fs, EncPath(path, "doc_encoder"))

LoadSource_Own(fs, path, e) == EncPath(path, e)

\* lines 136-142: the file encoder e is loaded from
LoadSource(fs, path, e) == IF LoadFallsBack(fs, path) THEN path ELSE EncPath(path, e)

\* ------------------------------------------------------------ main_cli
is_distr_train == args.device_qty > 1

train_pairs_all == [i \in 1 .. args.train_pair_qty |-> i]

qids == IF is_distr_train THEN train_pairs_all ELSE <<>>

\* Python's s[a:b] for 0 <= a, 0 <= b
PySlice(s, a, b) ==
    LET lo == Min(a, Len(s))
        hi == Min(b, Len(s))
    IN  [i \in 1 .. Max(0, hi - lo) |-> s[lo + i]]

RankOrder_Forward(device_qty) == [i \in 1 .. device_qty |-> i - 1]

\* range(device_qty - 1, -1, -1)
RankOrder(device_qty) == [i \in 1 .. device_qty |-> device_qty - i]

tpart_qty_Floor(train_pair_qty, device_qty) == train_pair_qty \div device_qty

tpart_qty(train_pair_qty, device_qty) == (train_pair_qty + device_qty - 1) \div device_qty

train_start(rank) == rank * tpart_qty(args.train_pair_qty, args.device_qty)

train_end(rank) == Min(train_start(rank) + tpart_qty(args.train_pair_qty, args.device_qty), Len(qids))

TrainPairsOf(rank) ==
    IF is_distr_train \/ args.train_pair_qty < args.device_qty
    THEN PySlice(qids, train_start(rank), train_end(rank))
    ELSE train_pairs_all

is_master_proc(rank) == rank = 0

ArgSpace ==
    [device_qty : 1 .. MaxDev,
     train_pair_qty : 1 .. MaxPairs,
     batch_size : 1 .. MaxBatch,
     backprop_batch_size : 1 .. MaxBackprop,
     batch_sync_qty : 1 .. MaxSync,
     batches_per_train_epoch : 0 .. MaxBpte,
     epoch_qty : 1 .. MaxEpochs,
     warmup_pct : BOOLEAN,
     save_snapshots : BOOLEAN,
     master_port : {"None", "port"}]

InitWith(a) ==
    /\ args = a
    /\ mainPc = "check_port"
    /\ loopIdx = 1
    /\ processes = <<>>
    /\ joinIdx = 0
    /\ pgDestroyed = FALSE
    /\ runLog = <<>>
    /\ train_pairs = [r \in 0 .. (a.device_qty - 1) |-> <<>>]
    /\ pc = [r \in 0 .. (a.device_qty - 1) |-> "idle"]
    /\ pgInit = [r \in 0 .. (a.device_qty - 1) |-> FALSE]
    /\ epoch = [r \in 0 .. (a.device_qty - 1) |-> 0]
    /\ max_train_qty = [r \in 0 .. (a.device_qty - 1) |-> 0]
    /\ total_qty = [r \in 0 .. (a.device_qty - 1) |-> 0]
    /\ total_prev_qty = [r \in 0 .. (a.device_qty - 1) |-> 0]
    /\ batch_id = [r \in 0 .. (a.device_qty - 1) |-> 0]
    /\ optSteps = [r \in 0 .. (a.device_qty - 1) |-> 0]
    /\ schedSteps = [r \in 0 .. (a.device_qty - 1) |-> 0]
    /\ syncAt = [r \in 0 .. (a.device_qty - 1) |-> {}]
    /\ params = [r \in 0 .. (a.device_qty - 1) |-> InitParams]
    /\ arCnt = [r \in 0 .. (a.device_qty - 1) |-> 0]
    /\ arDone = [r \in 0 .. (a.device_qty - 1) |-> 0]
    /\ arIn = <<>>
    /\ avgCalls = [r \in 0 .. (a.device_qty - 1) |-> [e \in 0 .. (a.epoch_qty - 1) |-> 0]]
    /\ postAvg = [r \in 0 .. (a.device_qty - 1) |-> 0]
    /\ stepsSinceAvg = [r \in 0 .. (a.device_qty - 1) |-> 0]
    /\ valid_score = <<>>
    /\ top_valid_score = <<>>
    /\ cache = [r \in 0 .. (a.device_qty - 1) |-> FALSE]
    /\ files = {}
    /\ scoreLog = <<>>
    /\ bestEpochs = {}
    /\ total_loss = [r \in 0 .. (a.device_qty - 1) |-> 0]
    /\ lossLog = [r \in 0 .. (a.device_qty - 1) |-> <<>>]
    /\ lossRet = [r \in 0 .. (a.device_qty - 1) |-> <<>>]
    /\ optimizer = [r \in 0 .. (a.device_qty - 1) |-> <<>>]
    /\ gradAcc = [r \in 0 .. (a.device_qty - 1) |-> 0]
    /\ appliedItems = [r \in 0 .. (a.device_qty - 1) |-> 0]
    /\ discarded = [r \in 0 .. (a.device_qty - 1) |-> 0]

\* no call has been made on a DssmBertRanker object by hand
NoObjectCall ==
    /\ enc = [e \in Encoders |-> [k \in Keys |-> [data |-> 0, requires_grad |-> TRUE]]]
    /\ disk = {}
    /\ call = [op |-> "none"]

\* parse_exper_conf is not run
NoConfRun ==
    /\ inpData = [is_list |-> TRUE, items |-> <<>>]
    /\ entryId = 0
    /\ confPc = "idle"
    /\ resList = <<>>
    /\ res = <<>>
    /\ outFile = [written |-> FALSE, content |-> <<>>]

Init == \E a \in ArgSpace : InitWith(a) /\ NoObjectCall /\ NoConfRun

MasterPortMissing_Never == FALSE

\* lines 445-446
MasterPortMissing == args.device_qty > 1 /\ args.master_port = "None"

\* lines 445-450: a multi-device run without a master port ends in sys.exit(1)
CheckMasterPort ==
    /\ mainPc = "check_port"
    /\ mainPc' = IF MasterPortMissing THEN "exit_1" ELSE "loop"
    /\ UNCHANGED <<args, confVars, objVars, gradVars, optimizer, lossVars, loopIdx, processes, joinIdx, pgDestroyed, runLog,
                   train_pairs, rankVars, iterVars, arVars, validVars>>

LoopRank == RankOrder(args.device_qty)[loopIdx]

\* where main_cli goes once the loop body of loopIdx is over
AfterLoopBody(idx) == IF idx >= args.device_qty THEN "join" ELSE "loop"

\* lines 511-514: Process(target=do_train, ...).start()
SpawnProcess ==
    /\ mainPc = "loop"
    /\ loopIdx <= args.device_qty
    /\ is_distr_train /\ ~is_master_proc(LoopRank)
    /\ train_pairs' = [train_pairs EXCEPT ![LoopRank] = TrainPairsOf(LoopRank)]
    /\ pc' = [pc EXCEPT ![LoopRank] = "init_pg"]
    /\ processes' = Append(processes, LoopRank)
    /\ runLog' = Append(runLog, <<LoopRank, "sub", is_master_proc(LoopRank)>>)
    /\ loopIdx' = loopIdx + 1
    /\ mainPc' = AfterLoopBody(loopIdx)
    /\ UNCHANGED <<args, confVars, objVars, gradVars, optimizer, lossVars, joinIdx, pgDestroyed, pgInit, epoch, params, stepsSinceAvg, cache,
                   iterVars, arVars, validVars>>

\* lines 515-516: do_train(**param_dict) in the invoking process
CallDoTrain ==
    /\ mainPc = "loop"
    /\ loopIdx <= args.device_qty
    /\ ~(is_distr_train /\ ~is_master_proc(LoopRank))
    /\ train_pairs' = [train_pairs EXCEPT ![LoopRank] = TrainPairsOf(LoopRank)]
    /\ pc' = [pc EXCEPT ![LoopRank] = "init_pg"]
    /\ runLog' = Append(runLog, <<LoopRank, "main", is_master_proc(LoopRank)>>)
    /\ mainPc' = "do_train"
    /\ UNCHANGED <<args, confVars, objVars, gradVars, optimizer, lossVars, loopIdx, processes, joinIdx, pgDestroyed, pgInit, epoch, params,
                   stepsSinceAvg, cache, iterVars, arVars, validVars>>

\* do_train returns to main_cli (or its exception leaves main_cli)
DoTrainReturn ==
    /\ mainPc = "do_train"
    /\ pc[LoopRank] \in {"done", "crashed"}
    /\ mainPc' = IF pc[LoopRank] = "crashed" THEN "failed" ELSE AfterLoopBody(loopIdx)
    /\ loopIdx' = loopIdx + 1
    /\ UNCHANGED <<args, confVars, objVars, gradVars, optimizer, lossVars, processes, joinIdx, pgDestroyed, runLog, train_pairs,
                   rankVars, iterVars, arVars, validVars>>

AfterJoin_Early(idx) == "destroy"

\* where main_cli goes after joining idx subprocesses
AfterJoin(idx) == IF idx >= Len(processes) THEN "destroy" ELSE "join"

\* utils.join_and_check_stat(p): p has exited; a non-zero exit status is a failure
ExitStatusBad(p) == pc[p] = "crashed"

\* lines 518-519: every spawned process is joined (which blocks until it has
\* exited) and its exit status checked, in spawn order
JoinAndCheckStat ==
    /\ mainPc = "join"
    /\ IF joinIdx >= Len(processes)
       THEN /\ mainPc' = "destroy"
            /\ UNCHANGED joinIdx
       ELSE /\ pc[processes[joinIdx + 1]] \in {"done", "crashed"}
            /\ joinIdx' = joinIdx + 1
            /\ mainPc' = IF ExitStatusBad(processes[joinIdx + 1])
                         THEN "failed"
                         ELSE AfterJoin(joinIdx + 1)
    /\ UNCHANGED <<args, confVars, objVars, gradVars, optimizer, lossVars, loopIdx, processes, pgDestroyed, runLog, train_pairs,
                   rankVars, iterVars, arVars, validVars>>

\* lines 521-522
DestroyProcessGroup ==
    /\ mainPc = "destroy"
    /\ pgDestroyed' = (args.device_qty > 1)
    /\ mainPc' = "exit"
    /\ UNCHANGED <<args, confVars, objVars, gradVars, optimizer, lossVars, loopIdx, processes, joinIdx, runLog, train_pairs,
                   rankVars, iterVars, arVars, validVars>>

\* ------------------------------------------------------- avg_model_params
ZeroParams == [i \in 1 .. NumParams |-> <<0, 1>>]

\* rank r enters its next avg_model_params call and contributes its parameters
ArEnter(r) ==
    LET k == arCnt[r] + 1
    IN  /\ arCnt' = [arCnt EXCEPT ![r] = k]
        /\ arIn' = IF Len(arIn) < k
                   THEN Append(arIn, [who |-> {r},
                                      val |-> [q \in Ranks |-> IF q = r THEN params[r] ELSE ZeroParams]])
                   ELSE [arIn EXCEPT ![k].who = @ \cup {r}, ![k].val[r] = params[r]]
        /\ avgCalls' = [avgCalls EXCEPT ![r][epoch[r]] = @ + 1]

\* dist.all_reduce(prm.data, op=SUM) for parameter i of one round
AllReduceSum(round, i) == RSumUpTo([q \in Ranks |-> round.val[q][i]], args.device_qty - 1)

avg_model_params_NoDiv(round) == [i \in 1 .. NumParams |-> AllReduceSum(round, i)]

\* lines 78-81: every parameter becomes the sum over the ranks divided by the world size
avg_model_params(round) ==
    [i \in 1 .. NumParams |-> RDivInt(AllReduceSum(round, i), args.device_qty)]

\* ------------------------------------------------------------ do_train
\* data.train_item_qty(train_pairs): the number of training items of the rank
train_item_qty(tp) == Len(tp)

\* data.iter_train_pairs: every record holds backprop_batch_size pairs
RecordCount == args.backprop_batch_size

\* line 255
MaxTrainQty(r) ==
    IF args.batches_per_train_epoch <= 0
    THEN train_item_qty(train_pairs[r])
    ELSE args.batches_per_train_epoch * args.batch_size

lr_steps_Floor(mtq) == mtq \div args.batch_size

\* line 257: int(math.ceil(max_train_qty / batch_size))
lr_steps(mtq) == (mtq + args.batch_size - 1) \div args.batch_size

\* lines 222-225: dist.init_process_group is entered
InitProcessGroup(r) ==
    /\ pc[r] = "init_pg"
    /\ IF args.device_qty > 1
       THEN /\ pgInit' = [pgInit EXCEPT ![r] = TRUE]
            /\ pc' = [pc EXCEPT ![r] = "pg_wait"]
       ELSE /\ pc' = [pc EXCEPT ![r] = "epoch"]
            /\ UNCHANGED pgInit
    /\ UNCHANGED <<args, confVars, objVars, gradVars, optimizer, lossVars, mainVars, epoch, params, stepsSinceAvg, cache, iterVars, arVars, validVars>>

\* dist.init_process_group returns once all world_size ranks have joined
InitProcessGroupDone(r) ==
    /\ pc[r] = "pg_wait"
    /\ \A q \in Ranks : pgInit[q]
    /\ pc' = [pc EXCEPT ![r] = "epoch"]
    /\ UNCHANGED <<args, confVars, objVars, gradVars, optimizer, lossVars, mainVars, pgInit, epoch, params, stepsSinceAvg, cache, iterVars, arVars, validVars>>

\* k.startswith('bert.')
StartsWithBert(path) == path[1] = "bert"

\* line 247
TrainableParams == {i \in 1 .. NumParams : requires_grad(i)}

\* line 248: the group at the default rate lr
non_bert_params ==
    [params |-> {i \in TrainableParams : ~StartsWithBert(ParamPath(i))}, lr |-> "lr"]

\* line 249
bert_params ==
    [params |-> {i \in TrainableParams : StartsWithBert(ParamPath(i))}, lr |-> "bert_lr"]

zero_grad_Keep(g) == g

\* optimizer.zero_grad(), lines 115 and 154: no gradient stays accumulated
zero_grad(g) == 0

\* lines 245-266 and 106-129: a new optimizer and scheduler, then train_iteration
\* starts; OneCycleLR rejects total_steps <= 0
EpochStart(r) ==
    /\ pc[r] = "epoch"
    /\ max_train_qty' = [max_train_qty EXCEPT ![r] = MaxTrainQty(r)]
    /\ pc' = [pc EXCEPT ![r] = IF args.warmup_pct /\ lr_steps(MaxTrainQty(r)) <= 0
                               THEN "crashed" ELSE "record"]
    /\ total_qty' = [total_qty EXCEPT ![r] = 0]
    /\ total_prev_qty' = [total_prev_qty EXCEPT ![r] = 0]
    /\ batch_id' = [batch_id EXCEPT ![r] = 0]
    /\ optSteps' = [optSteps EXCEPT ![r] = 0]
    /\ schedSteps' = [schedSteps EXCEPT ![r] = 0]
    /\ syncAt' = [syncAt EXCEPT ![r] = {}]
    /\ total_loss' = [total_loss EXCEPT ![r] = 0]
    /\ lossLog' = [lossLog EXCEPT ![r] = <<>>]
    /\ optimizer' = [optimizer EXCEPT ![r] = <<non_bert_params, bert_params>>]
    /\ gradAcc' = [gradAcc EXCEPT ![r] = zero_grad(@)]
    /\ discarded' = [discarded EXCEPT ![r] = @ + (gradAcc[r] - zero_grad(gradAcc[r]))]
    /\ appliedItems' = [appliedItems EXCEPT ![r] = 0]
    /\ UNCHANGED <<args, confVars, objVars, lossRet, mainVars, pgInit, epoch, params, stepsSinceAvg, cache, arVars, validVars>>

\* ------------------------------------------------------ train_iteration
\* line 151
ThresholdReached(tq, tpq) == tq - tpq >= args.batch_size

AfterRecord_Strict(r, tq) == IF tq > max_train_qty[r] THEN "post" ELSE "record"

\* lines 172-173 and the loop: leave the loop once the quota is reached
AfterRecord(r, tq) == IF tq >= max_train_qty[r] THEN "post" ELSE "record"

StepEntry_SchedulerFirst == "sched_step"

\* lines 151-153: the first thing done at a threshold crossing
StepEntry == "opt_step"

\* data.iter_train_pairs without shuffling: the j-th pair (from 1) of the
\* endless stream over the rank's training pairs
StreamItem(tp, j) == tp[((j - 1) % Len(tp)) + 1]

\* the loss term of one pair: a fixed value per query id
PairLoss(qid) == qid

RECURSIVE RecordLoss(_, _, _)
\* lines 133-140: the loss of the record that holds the pairs done + 1 ..
\* done + count of the stream; every loss has reduction type sum
RecordLoss(tp, done, count) ==
    IF count = 0 THEN 0
    ELSE RecordLoss(tp, done, count - 1) + PairLoss(StreamItem(tp, done + count))

AccumLoss_Last(tl, loss) == loss

\* line 149: total_loss += loss.item()
AccumLoss(tl, loss) == tl + loss

MeanLoss_Sum(tl, tq) == <<tl, 1>>

\* line 178: total_loss / float(total_qty)
MeanLoss(tl, tq) == RNorm(tl, tq)

RECURSIVE TrainIterationFrom(_, _, _, _, _)
\* lines 109-178 as a function of the training pairs tp, the record size b and
\* the item quota: the loop from total_qty = tq and total_loss = tl on; the
\* quota is tested after each record
TrainIterationFrom(tp, b, quota, tq, tl) ==
    LET tq2 == tq + b
        tl2 == AccumLoss(tl, RecordLoss(tp, tq, b))
    IN  IF tq2 >= quota
        THEN [loss |-> MeanLoss(tl2, tq2), total_qty |-> tq2]
        ELSE TrainIterationFrom(tp, b, quota, tq2, tl2)

train_iteration(tp, b, quota) == TrainIterationFrom(tp, b, quota, 0, 0)

\* lines 131-151: one record is fetched, scored and back-propagated
NextRecord(r) ==
    /\ pc[r] = "record"
    /\ Len(train_pairs[r]) > 0
    /\ LET tq == total_qty[r] + RecordCount
       IN  /\ total_qty' = [total_qty EXCEPT ![r] = tq]
           /\ pc' = [pc EXCEPT ![r] = IF ThresholdReached(tq, total_prev_qty[r])
                                      THEN StepEntry
                                      ELSE AfterRecord(r, tq)]
    /\ cache' = [cache EXCEPT ![r] = TRUE]
    /\ LET loss == RecordLoss(train_pairs[r], total_qty[r], RecordCount)
       IN  /\ total_loss' = [total_loss EXCEPT ![r] = AccumLoss(@, loss)]
           /\ lossLog' = [lossLog EXCEPT ![r] = Append(@, <<loss, RecordCount>>)]
    /\ gradAcc' = [gradAcc EXCEPT ![r] = @ + RecordCount]
    /\ UNCHANGED <<args, confVars, objVars, appliedItems, discarded, optimizer, lossRet, mainVars, pgInit, epoch, params, stepsSinceAvg,
                   max_train_qty, total_prev_qty, batch_id, optSteps, schedSteps, syncAt,
                   arVars, validVars>>

\* no training pairs: the record stream ends at once and line 178 divides by zero
EmptyStreamCrash(r) ==
    /\ pc[r] = "record"
    /\ Len(train_pairs[r]) = 0
    /\ pc' = [pc EXCEPT ![r] = "crashed"]
    /\ UNCHANGED <<args, confVars, objVars, gradVars, optimizer, lossVars, mainVars, pgInit, epoch, params, stepsSinceAvg, cache, iterVars, arVars, validVars>>

\* no training pairs: the record stream never yields
EmptyStreamHang(r) ==
    /\ pc[r] = "record"
    /\ Len(train_pairs[r]) = 0
    /\ pc' = [pc EXCEPT ![r] = "hung"]
    /\ UNCHANGED <<args, confVars, objVars, gradVars, optimizer, lossVars, mainVars, pgInit, epoch, params, stepsSinceAvg, cache, iterVars, arVars, validVars>>

\* lines 153-155
OptimizerStep(r) ==
    /\ pc[r] = "opt_step"
    /\ params' = [params EXCEPT ![r] = [i \in 1 .. NumParams |-> RAdd(params[r][i], <<Gradient(r), 1>>)]]
    /\ optSteps' = [optSteps EXCEPT ![r] = @ + 1]
    /\ total_prev_qty' = [total_prev_qty EXCEPT ![r] = total_qty[r]]
    /\ stepsSinceAvg' = [stepsSinceAvg EXCEPT ![r] = @ + 1]
    /\ pc' = [pc EXCEPT ![r] = IF args.warmup_pct THEN "sched_step" ELSE "sync"]
    /\ appliedItems' = [appliedItems EXCEPT ![r] = @ + gradAcc[r]]
    /\ gradAcc' = [gradAcc EXCEPT ![r] = zero_grad(@)]
    /\ UNCHANGED <<args, confVars, objVars, discarded, optimizer, lossVars, mainVars, pgInit, epoch, cache, max_train_qty, total_qty, batch_id,
                   schedSteps, syncAt, arVars, validVars>>

\* lines 158-160
SchedulerStep(r) ==
    /\ pc[r] = "sched_step"
    /\ schedSteps' = [schedSteps EXCEPT ![r] = @ + 1]
    /\ pc' = [pc EXCEPT ![r] = "sync"]
    /\ UNCHANGED <<args, confVars, objVars, gradVars, optimizer, lossVars, mainVars, pgInit, epoch, params, stepsSinceAvg, cache, max_train_qty,
                   total_qty, total_prev_qty, batch_id, optSteps, syncAt, arVars, validVars>>

\* line 164
SyncDue(bid) == bid % args.batch_sync_qty = 0

\* lines 163-167: enter the mid-epoch averaging, or go on
MidEpochSync(r) ==
    /\ pc[r] = "sync"
    /\ IF args.device_qty > 1 /\ SyncDue(batch_id[r])
       THEN /\ ArEnter(r)
            /\ syncAt' = [syncAt EXCEPT ![r] = @ \cup {optSteps[r]}]
            /\ pc' = [pc EXCEPT ![r] = "ar_mid"]
            /\ UNCHANGED batch_id
       ELSE /\ batch_id' = [batch_id EXCEPT ![r] = @ + 1]
            /\ pc' = [pc EXCEPT ![r] = AfterRecord(r, total_qty[r])]
            /\ UNCHANGED <<arCnt, arIn, avgCalls, syncAt>>
    /\ UNCHANGED <<args, confVars, objVars, gradVars, optimizer, lossVars, mainVars, pgInit, epoch, params, stepsSinceAvg, cache, max_train_qty,
                   total_qty, total_prev_qty, optSteps, schedSteps, arDone, postAvg, validVars>>

PcAfterPostAvg_AllValidate(r) == "validate"

\* line 282
PcAfterPostAvg(r) == IF is_master_proc(r) THEN "validate" ELSE "decay"

PostEpochEntry_Skip(r) == PcAfterPostAvg(r)

PostEpochEntry_Always(r) == "ar_post"

\* lines 279-280: where a rank goes when train_iteration has returned
PostEpochEntry(r) == IF args.device_qty > 1 THEN "ar_post" ELSE PcAfterPostAvg(r)

\* lines 270-280: train_iteration has returned; enter the post-epoch averaging
PostEpochSync(r) ==
    /\ pc[r] = "post"
    /\ pc' = [pc EXCEPT ![r] = PostEpochEntry(r)]
    /\ IF PostEpochEntry(r) = "ar_post"
       THEN ArEnter(r)
       ELSE UNCHANGED <<arCnt, arIn, avgCalls>>
    /\ lossRet' = [lossRet EXCEPT ![r] = MeanLoss(total_loss[r], total_qty[r])]
    /\ UNCHANGED <<args, confVars, objVars, gradVars, optimizer, total_loss, lossLog, mainVars, pgInit, epoch, params, stepsSinceAvg, cache, iterVars,
                   arDone, postAvg, validVars>>

\* the blocking all-reduce of round arCnt[r] returns once every rank has entered it
AllReduceComplete(r) ==
    /\ pc[r] \in {"ar_mid", "ar_post"}
    /\ arIn[arCnt[r]].who = Ranks
    /\ params' = [params EXCEPT ![r] = avg_model_params(arIn[arCnt[r]])]
    /\ arDone' = [arDone EXCEPT ![r] = arCnt[r]]
    /\ stepsSinceAvg' = [stepsSinceAvg EXCEPT ![r] = 0]
    /\ IF pc[r] = "ar_mid"
       THEN /\ batch_id' = [batch_id EXCEPT ![r] = @ + 1]
            /\ pc' = [pc EXCEPT ![r] = AfterRecord(r, total_qty[r])]
            /\ UNCHANGED postAvg
       ELSE /\ postAvg' = [postAvg EXCEPT ![r] = @ + 1]
            /\ pc' = [pc EXCEPT ![r] = PcAfterPostAvg(r)]
            /\ UNCHANGED batch_id
    /\ UNCHANGED <<args, confVars, objVars, gradVars, optimizer, lossVars, mainVars, pgInit, epoch, cache, max_train_qty, total_qty, total_prev_qty,
                   optSteps, schedSteps, syncAt, arCnt, arIn, avgCalls, validVars>>

\* ------------------------------------------- validation and checkpoints
Scores == 0 .. MaxScore

\* os.path.join(model_out_dir, name): writing replaces a file of the same path
WriteFile(fs, f) == {x \in fs : x.path # f.path} \cup {f}

\* what a write by rank r stores: the model as it is at the write
ModelFile(path, r) ==
    [path |-> path, epoch |-> epoch[r], writer |-> r, params |-> params[r], cache |-> cache[r],
     postAvg |-> postAvg[r], steps |-> stepsSinceAvg[r]]

\* lines 283-287: validate() scores the run, writes <epoch>.run and returns the metric
Validate(r) ==
    /\ pc[r] = "validate"
    /\ \E s \in Scores : valid_score' = <<s>> /\ scoreLog' = Append(scoreLog, s)
    /\ files' = WriteFile(files, ModelFile(ToString(epoch[r]) \o ".run", r))
    /\ cache' = [cache EXCEPT ![r] = TRUE]
    /\ pc' = [pc EXCEPT ![r] = "clear_cache"]
    /\ UNCHANGED <<args, confVars, objVars, gradVars, optimizer, lossVars, mainVars, pgInit, epoch, params, stepsSinceAvg, iterVars, arVars,
                   top_valid_score, bestEpochs>>

ClearCache_Keep(r) ==
    /\ pc[r] = "clear_cache"
    /\ pc' = [pc EXCEPT ![r] = "save_best"]
    /\ UNCHANGED <<args, confVars, objVars, gradVars, optimizer, lossVars, mainVars, pgInit, epoch, params, stepsSinceAvg, cache, iterVars, arVars, validVars>>

\* line 289
ClearCache(r) ==
    /\ pc[r] = "clear_cache"
    /\ cache' = [cache EXCEPT ![r] = FALSE]
    /\ pc' = [pc EXCEPT ![r] = "save_best"]
    /\ UNCHANGED <<args, confVars, objVars, gradVars, optimizer, lossVars, mainVars, pgInit, epoch, params, stepsSinceAvg, iterVars, arVars, validVars>>

IsNewBest_OrEqual(score, top) == top = <<>> \/ score[1] >= top[1]

\* line 290
IsNewBest(score, top) == top = <<>> \/ score[1] > top[1]

\* lines 290-293
SaveBest(r) ==
    /\ pc[r] = "save_best"
    /\ IF IsNewBest(valid_score, top_valid_score)
       THEN /\ top_valid_score' = valid_score
            /\ files' = WriteFile(files, ModelFile("model.best", r))
            /\ bestEpochs' = bestEpochs \cup {epoch[r]}
       ELSE UNCHANGED <<top_valid_score, files, bestEpochs>>
    /\ pc' = [pc EXCEPT ![r] = "snapshot"]
    /\ UNCHANGED <<args, confVars, objVars, gradVars, optimizer, lossVars, mainVars, pgInit, epoch, params, stepsSinceAvg, cache, iterVars, arVars,
                   valid_score, scoreLog>>

\* lines 295-296
SaveSnapshot(r) ==
    /\ pc[r] = "snapshot"
    /\ IF args.save_snapshots
       THEN files' = WriteFile(files, ModelFile("model." \o ToString(epoch[r]), r))
       ELSE UNCHANGED files
    /\ pc' = [pc EXCEPT ![r] = "decay"]
    /\ UNCHANGED <<args, confVars, objVars, gradVars, optimizer, lossVars, mainVars, pgInit, epoch, params, stepsSinceAvg, cache, iterVars, arVars,
                   valid_score, top_valid_score, scoreLog, bestEpochs>>

\* lines 298-299 and the epoch loop of line 245
EpochEnd(r) ==
    /\ pc[r] = "decay"
    /\ epoch' = [epoch EXCEPT ![r] = @ + 1]
    /\ pc' = [pc EXCEPT ![r] = IF epoch[r] + 1 >= args.epoch_qty THEN "done" ELSE "epoch"]
    /\ UNCHANGED <<args, confVars, objVars, gradVars, optimizer, lossVars, mainVars, pgInit, params, stepsSinceAvg, cache, iterVars, arVars, validVars>>

\* ------------------------------------- calls on a DssmBertRanker object
trainVars == <<args, mainVars, rankVars, iterVars, arVars, validVars, lossVars, optimizer, gradVars>>

\* the path given to save and load
SavePaths == {"m"}

\* files that may exist before the first call: a language-model checkpoint at
\* the path itself, which has no head, and encoder files of an earlier save
InitialFiles ==
    {[path |-> "m", state |-> [k \in {"bert.weight"} |-> 1]],
     [path |-> "m_query", state |-> [k \in Keys |-> 1]],
     [path |-> "m_doc", state |-> [k \in Keys |-> 1]]}

\* DssmBertRanker.save, lines 129-131 and 53-60
RankerSave(path) ==
    /\ disk' = WriteFile(WriteFile(disk,
                    [path |-> EncPath(path, "query_encoder"), state |-> SavedState("query_encoder")]),
                    [path |-> EncPath(path, "doc_encoder"), state |-> SavedState("doc_encoder")])
    /\ call' = [op |-> "save", path |-> path]
    /\ UNCHANGED <<trainVars, confVars, enc>>

\* DssmBertRanker.load, lines 133-142 and 62-63; torch.load of a missing file
\* raises FileNotFoundError
RankerLoad(path) ==
    /\ IF \A e \in Encoders : Exists(disk, LoadSource(disk, path, e))
       THEN /\ enc' = [e \in Encoders |->
                          LoadStateDict(enc[e], FileState(disk, LoadSource(disk, path, e)))]
            /\ call' = [op |-> "load", path |-> path, raised |-> "none", pre |-> enc]
       ELSE /\ call' = [op |-> "load", path |-> path, raised |-> "FileNotFoundError", pre |-> enc]
            /\ UNCHANGED enc
    /\ UNCHANGED <<trainVars, confVars, disk>>

\* an optimizer step changes a parameter that requires gradient
ParamUpdate(e, k) ==
    /\ enc[e][k].requires_grad
    /\ enc' = [enc EXCEPT ![e][k].data = (@ + 1) % (MaxData + 1)]
    /\ call' = [op |-> "step"]
    /\ UNCHANGED <<trainVars, confVars, disk>>

\* BertSepObjEncoder.forward on a BATCH x LEN token matrix, lines 46-51
EncoderForward(e, BATCH, LEN) ==
    /\ call' = [op |-> "forward", encoder |-> e, BATCH |-> BATCH, LEN |-> LEN,
                out |-> forward(BATCH, LEN)]
    /\ UNCHANGED <<trainVars, confVars, enc, disk>>

\* a DssmBertRanker whose user has frozen any of its parameters, in a
\* directory that holds any of the initial files
ObjInit ==
    /\ InitWith([device_qty |-> 1, train_pair_qty |-> 1, batch_size |-> 1, backprop_batch_size |-> 1,
                 batch_sync_qty |-> 1, batches_per_train_epoch |-> 0, epoch_qty |-> 1,
                 warmup_pct |-> FALSE, save_snapshots |-> FALSE, master_port |-> "None"])
    /\ enc \in [Encoders -> [Keys -> [data : {0}, requires_grad : BOOLEAN]]]
    /\ disk \in SUBSET InitialFiles
    /\ call = [op |-> "none"]
    /\ NoConfRun

ObjNext ==
    \/ \E path \in SavePaths : RankerSave(path)
    \/ \E path \in SavePaths : RankerLoad(path)
    \/ \E e \in Encoders, k \in Keys : ParamUpdate(e, k)
    \/ \E e \in Encoders, BATCH \in 1 .. MaxSeqBatch, LEN \in 0 .. MaxSeqLen : EncoderForward(e, BATCH, LEN)

ObjSpec == ObjInit /\ [][ObjNext]_vars

\* ----------------------------------------------------- parse_exper_conf
\* texts are sequences of characters
NL == "\n"
CR == "\r"

Alphabet == {"a", NL, CR}

\* the texts of at most n characters
StrUpTo(n) == UNION {[1 .. k -> Alphabet] : k \in 0 .. n}

\* JSON scalars: strings (text) and integers (num)
JsonValues ==
    [type : {"str"}, text : StrUpTo(MaxStrLen), num : {0}]
        \cup [type : {"int"}, text : {<<>>}, num : 0 .. MaxIntVal]

\* JSON object keys: non-empty strings
JsonKeys == [type : {"str"}, text : StrUpTo(MaxStrLen) \ {<<>>}, num : {0}]

\* JSON objects as json.load yields them: key / value pairs in document
\* order, no key twice
JsonDicts ==
    {d \in UNION {[1 .. k -> JsonKeys \X JsonValues] : k \in 0 .. MaxKeys} :
        \A i \in DOMAIN d, j \in DOMAIN d : i # j => d[i][1] # d[j][1]}

JsonArrays == UNION {[1 .. k -> JsonDicts] : k \in 0 .. MaxEntries}

Digits == <<"0", "1", "2", "3", "4", "5", "6", "7", "8", "9">>

RECURSIVE IntToStr(_)
\* str() of a non-negative integer
IntToStr(n) == IF n < 10 THEN <<Digits[n + 1]>> ELSE IntToStr(n \div 10) \o <<Digits[(n % 10) + 1]>>

\* str() of a key or value
str(v) == IF v.type = "int" THEN IntToStr(v.num) ELSE v.text

replaceCharsNL_OnlyNL(s) == [i \in 1 .. Len(s) |-> IF s[i] = NL THEN " " ELSE s[i]]

\* lines 21-22: re.sub(r'[\n\r]', ' ', s)
replaceCharsNL(s) == [i \in 1 .. Len(s) |-> IF s[i] \in {NL, CR} THEN " " ELSE s[i]]

\* lines 42-44: f'{key}:{value}'
FormatLine(key, value) == replaceCharsNL(str(key)) \o <<":">> \o replaceCharsNL(str(value))

RECURSIVE JoinLines(_)
\* line 46: '\n'.join(resList)
JoinLines(lines) ==
    IF lines = <<>> THEN <<>>
    ELSE IF Len(lines) = 1 THEN lines[1]
    ELSE lines[1] \o <<NL>> \o JoinLines(Tail(lines))

\* line 36
OutOfRange(id, data) == id < 0 \/ id >= Len(data)

OOR == <<"#", "O", "O", "R">>

\* lines 28-38: a root that is no list ends the script with status 1; an index
\* out of range gives #OOR; otherwise the loop over the entry starts
ConfStart ==
    /\ confPc = "start"
    /\ IF ~inpData.is_list
       THEN confPc' = "exit_1" /\ UNCHANGED <<res, resList>>
       ELSE IF OutOfRange(entryId, inpData.items)
       THEN confPc' = "write" /\ res' = OOR /\ UNCHANGED resList
       ELSE confPc' = "loop" /\ resList' = <<>> /\ UNCHANGED res
    /\ UNCHANGED <<trainVars, objVars, inpData, entryId, outFile>>

\* lines 41-44: the next item of the entry
ConfLoopItem ==
    /\ confPc = "loop"
    /\ Len(resList) < Len(inpData.items[entryId + 1])
    /\ LET item == inpData.items[entryId + 1][Len(resList) + 1]
       IN  resList' = Append(resList, FormatLine(item[1], item[2]))
    /\ UNCHANGED <<trainVars, objVars, inpData, entryId, confPc, res, outFile>>

\* line 46
ConfJoin ==
    /\ confPc = "loop"
    /\ Len(resList) = Len(inpData.items[entryId + 1])
    /\ res' = JoinLines(resList)
    /\ confPc' = "write"
    /\ UNCHANGED <<trainVars, objVars, inpData, entryId, resList, outFile>>

\* lines 48-49
ConfWrite ==
    /\ confPc = "write"
    /\ outFile' = [written |-> TRUE, content |-> res]
    /\ confPc' = "done"
    /\ UNCHANGED <<trainVars, objVars, inpData, entryId, resList, res>>

\* any input JSON within the bounds and any entry index around its range
ConfInit ==
    /\ InitWith([device_qty |-> 1, train_pair_qty |-> 1, batch_size |-> 1, backprop_batch_size |-> 1,
                 batch_sync_qty |-> 1, batches_per_train_epoch |-> 0, epoch_qty |-> 1,
                 warmup_pct |-> FALSE, save_snapshots |-> FALSE, master_port |-> "None"])
    /\ NoObjectCall
    /\ \/ inpData \in [is_list : {TRUE}, items : JsonArrays]
       \/ inpData = [is_list |-> FALSE, items |-> <<>>]
    /\ entryId \in -1 .. MaxEntries
    /\ confPc = "start"
    /\ resList = <<>>
    /\ res = <<>>
    /\ outFile = [written |-> FALSE, content |-> <<>>]

ConfNext ==
    \/ ConfStart
    \/ ConfLoopItem
    \/ ConfJoin
    \/ ConfWrite

ConfSpec == ConfInit /\ [][ConfNext]_vars

\* ------------------------------------------------------- specification
Next ==
    \/ CheckMasterPort
    \/ SpawnProcess
    \/ CallDoTrain
    \/ DoTrainReturn
    \/ JoinAndCheckStat
    \/ DestroyProcessGroup
    \/ \E r \in Ranks : InitProcessGroup(r)
    \/ \E r \in Ranks : InitProcessGroupDone(r)
    \/ \E r \in Ranks : EpochStart(r)
    \/ \E r \in Ranks : NextRecord(r)
    \/ \E r \in Ranks : EmptyStreamCrash(r)
    \/ \E r \in Ranks : EmptyStreamHang(r)
    \/ \E r \in Ranks : OptimizerStep(r)
    \/ \E r \in Ranks : SchedulerStep(r)
    \/ \E r \in Ranks : MidEpochSync(r)
    \/ \E r \in Ranks : PostEpochSync(r)
    \/ \E r \in Ranks : AllReduceComplete(r)
    \/ \E r \in Ranks : Validate(r)
    \/ \E r \in Ranks : ClearCache(r)
    \/ \E r \in Ranks : SaveBest(r)
    \/ \E r \in Ranks : SaveSnapshot(r)
    \/ \E r \in Ranks : EpochEnd(r)

Spec == Init /\ [][Next]_vars

\* every process that can take a step eventually takes one
FairSpec == Spec /\ WF_vars(Next)

\* ---------------------------------------------------------------- claims
\* positions of do_train after the post-epoch averaging of the current epoch
AfterPostAvgPcs == {"validate", "clear_cache", "save_best", "snapshot", "decay"}

\* rank r has entered every avg_model_params call it makes in epoch e
EnteredAllAvgCalls(r, e) ==
    \/ epoch[r] > e
    \/ epoch[r] = e /\ pc[r] \in AfterPostAvgPcs \cup {"ar_post"}

\* C1: in a multi-device run, in every epoch all ranks call avg_model_params
\* the same number of times: once a rank has made all its calls of epoch e,
\* no other rank makes more calls in epoch e than it did.
C1_SameAvgCallsPerEpoch ==
    args.device_qty > 1 =>
        \A r \in Ranks, q \in Ranks, e \in 0 .. (args.epoch_qty - 1) :
            EnteredAllAvgCalls(r, e) => avgCalls[q][e] <= avgCalls[r][e]

NoRankFailed == mainPc # "failed" /\ \A r \in Ranks : pc[r] \notin {"crashed", "hung"}

\* C2: in a multi-device run in which no process crashes, the run never gets
\* stuck before main_cli has joined every subprocess and destroyed the process
\* group: in every state either main_cli has exited or some process can step.
C2_NeverStuckBeforeExit ==
    (args.device_qty > 1 /\ NoRankFailed) => (mainPc \in {"exit", "exit_1"} \/ ENABLED Next)

\* C3: the scheduler never has more steps than the optimizer; a scheduler step
\* is taken only right after the optimizer step of the same threshold
\* crossing; with a scheduler configured the two counts are equal once the
\* crossing is handled, and without one the scheduler is never stepped.
C3_SchedulerFollowsOptimizer ==
    \A r \in Ranks :
        /\ schedSteps[r] <= optSteps[r]
        /\ pc[r] = "sched_step" => optSteps[r] = schedSteps[r] + 1
        /\ (args.warmup_pct /\ pc[r] \notin {"opt_step", "sched_step"}) => schedSteps[r] = optSteps[r]
        /\ ~args.warmup_pct => schedSteps[r] = 0

C3_Witness ==
    \E r \in Ranks : schedSteps[r] = 2 /\ optSteps[r] = 2 /\ pc[r] = "sync"

\* C4: in a multi-device epoch the k-th optimizer step (k from 1) triggers a
\* mid-epoch averaging if and only if k is a multiple of batch_sync_qty.
C4_SyncAtMultiplesOfN ==
    args.device_qty > 1 =>
        \A r \in Ranks :
            /\ \A k \in syncAt[r] : k % args.batch_sync_qty = 0
            /\ \A k \in 1 .. batch_id[r] : k % args.batch_sync_qty = 0 => k \in syncAt[r]

\* C5: in a multi-device run every rank completes exactly one post-epoch
\* averaging per epoch, after train_iteration and before it goes on; the master
\* validates and writes its files only after that averaging and without any
\* optimizer step in between, so what is validated and saved in epoch e is the
\* averaged model.
C5_PostEpochAvgBeforeValidation ==
    args.device_qty > 1 =>
        /\ \A r \in Ranks :
              /\ postAvg[r] = epoch[r] + (IF pc[r] \in AfterPostAvgPcs THEN 1 ELSE 0)
              /\ pc[r] \in AfterPostAvgPcs => stepsSinceAvg[r] = 0 /\ arDone[r] = arCnt[r]
        /\ \A f \in files : f.postAvg = f.epoch + 1 /\ f.steps = 0

C5_Witness ==
    /\ args.device_qty > 1
    /\ pc[0] = "decay" /\ epoch[0] = 1 /\ optSteps[0] > 0
    /\ \E f \in files : f.path = "model.1" /\ f.epoch = 1
    /\ \E f \in files : f.path = "1.run"

\* C6: when a rank has completed an avg_model_params call, each of its
\* parameters times the world size equals the sum of the values the ranks had
\* when they entered that call, and all ranks contributed; two ranks that have
\* completed the same call, with no optimizer step since, hold equal parameters.
C6_AverageOfAllRanks ==
    /\ \A r \in Ranks : (arDone[r] >= 1 /\ stepsSinceAvg[r] = 0) =>
          /\ arIn[arDone[r]].who = Ranks
          /\ \A i \in 1 .. NumParams :
                params[r][i][1] * args.device_qty * AllReduceSum(arIn[arDone[r]], i)[2]
                    = AllReduceSum(arIn[arDone[r]], i)[1] * params[r][i][2]
    /\ \A r \in Ranks, q \in Ranks :
          (arDone[r] >= 1 /\ arDone[r] = arDone[q] /\ stepsSinceAvg[r] = 0 /\ stepsSinceAvg[q] = 0)
              => params[r] = params[q]

C6_Witness ==
    /\ args.device_qty = 3
    /\ \A r \in Ranks : arDone[r] = 2 /\ stepsSinceAvg[r] = 0
    /\ arIn[1].val[0] # arIn[1].val[1]
    /\ params[0][1][2] > 1

RECURSIVE ConcatUpTo(_, _)
\* f[0] \o f[1] \o ... \o f[n]
ConcatUpTo(f, n) == IF n = 0 THEN f[0] ELSE ConcatUpTo(f, n - 1) \o f[n]

\* C7: for device_qty > 1 and at least as many query ids as devices, the
\* per-rank partitions, put one after the other in rank order, are the list
\* of query ids: contiguous slices, disjoint, covering every id exactly once.
C7_PartitionsCoverExactlyOnce ==
    (args.device_qty > 1 /\ args.train_pair_qty >= args.device_qty
        /\ \A r \in Ranks : pc[r] # "idle")
    => ConcatUpTo(train_pairs, args.device_qty - 1) = train_pairs_all

C7_Witness ==
    /\ args.device_qty = 3 /\ args.train_pair_qty = 4
    /\ \A r \in Ranks : pc[r] # "idle"
    /\ train_pairs[1] = <<3, 4>>

\* C8: whenever the training pairs are partitioned (distributed training, or
\* fewer pairs than devices), every started rank has a non-empty partition.
C8_EveryRankHasPairs ==
    (is_distr_train \/ args.train_pair_qty < args.device_qty) =>
        \A r \in Ranks : pc[r] # "idle" => Len(train_pairs[r]) > 0

\* C9: for device_qty > 1 every rank is run at most once and, once main_cli
\* has called do_train itself, exactly once; ranks other than 0 run in their
\* own subprocess and are not master; rank 0 runs in the invoking process, is
\* the master, and starts only after all the others have been started.
C9_RanksRunOnceMasterLast ==
    args.device_qty > 1 =>
        /\ \A i \in 1 .. Len(runLog), j \in 1 .. Len(runLog) :
              i # j => runLog[i][1] # runLog[j][1]
        /\ \A i \in 1 .. Len(runLog) :
              /\ runLog[i][2] = (IF runLog[i][1] = 0 THEN "main" ELSE "sub")
              /\ runLog[i][3] = (runLog[i][1] = 0)
              /\ runLog[i][1] = 0 => i = args.device_qty
        /\ mainPc \notin {"check_port", "exit_1", "loop"}
              => {runLog[i][1] : i \in 1 .. Len(runLog)} = Ranks
        /\ pc[0] # "idle" => \A r \in Ranks : pc[r] # "idle"
        /\ Len(processes) = Cardinality({processes[i] : i \in 1 .. Len(processes)})
        /\ {processes[i] : i \in 1 .. Len(processes)}
               = {runLog[i][1] : i \in {j \in 1 .. Len(runLog) : runLog[j][2] = "sub"}}

C9_Witness ==
    /\ args.device_qty = 3
    /\ mainPc = "exit"
    /\ processes = <<2, 1>>
    /\ \A r \in Ranks : pc[r] = "done"

\* C10: the process group is destroyed only when device_qty > 1, only by
\* main_cli in the invoking process, and only after the master's do_train has
\* returned and every spawned subprocess has exited and been joined and
\* checked.
C10_DestroyOnlyAfterJoin ==
    pgDestroyed =>
        /\ args.device_qty > 1
        /\ mainPc = "exit"
        /\ pc[0] = "done"
        /\ Len(processes) = args.device_qty - 1
        /\ joinIdx = Len(processes)
        /\ \A i \in 1 .. Len(processes) : pc[processes[i]] \in {"done", "crashed"}

C10_Witness == pgDestroyed /\ args.device_qty = 3 /\ joinIdx = 2

\* a spawned subprocess has failed (its do_train raised)
SubprocessFailed == \E i \in 1 .. Len(processes) : pc[processes[i]] = "crashed"

\* C11: once a spawned subprocess has failed, and no process hangs in its
\* record stream, main_cli is never left blocked for ever: in every state
\* either the join-and-check has surfaced the failure or some process can
\* still take a step.
C11_SubprocessFailureSurfaced ==
    (SubprocessFailed /\ \A r \in Ranks : pc[r] # "hung")
        => (mainPc = "failed" \/ ENABLED Next)

\* the master has decided about model.best in epoch e
BestDecided(e) == epoch[0] > e \/ (epoch[0] = e /\ pc[0] \in {"snapshot", "decay"})

\* the score of epoch e
ScoreOf(e) == scoreLog[e + 1]

\* the maximum of the scores of epochs 0 .. e
RECURSIVE MaxScoreUpTo(_)
MaxScoreUpTo(e) == IF e = 0 THEN ScoreOf(0) ELSE Max(MaxScoreUpTo(e - 1), ScoreOf(e))

\* C12: model.best is written in epoch e if and only if e is the first epoch
\* or its score is strictly greater than the score of every earlier epoch;
\* once the master has decided in epoch e, top_valid_score is the maximum of
\* the scores so far and model.best holds the model of the earliest epoch
\* that attained that maximum.
C12_BestIsEarliestMaximum ==
    /\ \A e \in 0 .. (args.epoch_qty - 1) : BestDecided(e) =>
          (e \in bestEpochs <=> (e = 0 \/ \A k \in 0 .. (e - 1) : ScoreOf(e) > ScoreOf(k)))
    /\ \A e \in bestEpochs : BestDecided(e) \/ (epoch[0] = e /\ pc[0] = "save_best")
    /\ \A e \in 0 .. (args.epoch_qty - 1) : (BestDecided(e) /\ ~BestDecided(e + 1)) =>
          /\ top_valid_score = <<MaxScoreUpTo(e)>>
          /\ \E f \in files :
                /\ f.path = "model.best"
                /\ ScoreOf(f.epoch) = MaxScoreUpTo(e)
                /\ \A k \in 0 .. (f.epoch - 1) : ScoreOf(k) < MaxScoreUpTo(e)

C12_Witness ==
    /\ scoreLog = <<1, 1>> /\ bestEpochs = {0}
    /\ pc[0] = "decay" /\ epoch[0] = 1
    /\ \E f \in files : f.path = "model.best" /\ f.epoch = 0

\* the run file that validate() writes, as opposed to a saved model object
IsRunFile(f) == \E e \in 0 .. MaxEpochs : f.path = ToString(e) \o ".run"

\* C13: no model object is written while the text-to-token cache holds
\* entries: the cache is empty whenever the master is about to write the best
\* checkpoint or the snapshot, and every model file on disk was written with
\* an empty cache.
C13_CacheClearedBeforeModelWrite ==
    /\ \A r \in Ranks : pc[r] \in {"save_best", "snapshot"} => ~cache[r]
    /\ \A f \in files : ~IsRunFile(f) => ~f.cache

\* training of epoch 1 had filled the cache when validation started, and both
\* model objects of that epoch are on disk
C13_Witness ==
    /\ \E f \in files : f.path = "1.run" /\ f.cache
    /\ \E f \in files : f.path = "model.best" /\ f.epoch = 1 /\ ~f.cache
    /\ \E f \in files : f.path = "model.1" /\ ~f.cache

\* positions of do_train at which the train_iteration of the current epoch is over
EpochLoopLeftPcs == {"post", "ar_post", "done"} \cup AfterPostAvgPcs

\* C14: a further record is fetched only while the item count is below the
\* quota; while the record that reaches the quota is being handled no other
\* record is fetched; when the loop has been left the count has reached the
\* quota, it had not reached it before the last record, and no threshold
\* crossing is left without its optimizer step.
C14_StopsAtQuota ==
    \A r \in Ranks :
        /\ (pc[r] = "record" /\ total_qty[r] > 0) => total_qty[r] < max_train_qty[r]
        /\ pc[r] \in EpochLoopLeftPcs =>
              /\ total_qty[r] >= max_train_qty[r]
              /\ total_qty[r] - RecordCount < max_train_qty[r]
              /\ ~ThresholdReached(total_qty[r], total_prev_qty[r])

\* the stopping record went past the quota and crossed the threshold, and its
\* optimizer step has been taken
C14_Witness ==
    \E r \in Ranks :
        /\ pc[r] = "post"
        /\ total_qty[r] > max_train_qty[r]
        /\ total_prev_qty[r] = total_qty[r]
        /\ optSteps[r] = 2

RECURSIVE SumOfLog(_, _)
\* the sum of component i over the entries of a loss log
SumOfLog(log, i) == IF log = <<>> THEN 0 ELSE SumOfLog(Tail(log), i) + Head(log)[i]

\* train_iteration of the current epoch has returned to do_train
Returned(r) == pc[r] \in EpochLoopLeftPcs \ {"post"}

BackpropSizes == 1 .. MaxBackprop

\* C16 as stated: on the training pairs and the item quota of any rank whose
\* train_iteration has returned, train_iteration yields the same mean loss
\* for any two record sizes, and the value returned is the one for the
\* configured size.
C16_SameLossForAnyRecordSize ==
    \A r \in Ranks : Returned(r) =>
        /\ lossRet[r] = train_iteration(train_pairs[r], args.backprop_batch_size, max_train_qty[r]).loss
        /\ \A b1 \in BackpropSizes, b2 \in BackpropSizes :
              train_iteration(train_pairs[r], b1, max_train_qty[r]).loss
                  = train_iteration(train_pairs[r], b2, max_train_qty[r]).loss

\* C16, amended: the same holds for any two record sizes under which the
\* epoch processes the same number of items (as when both divide the quota).
C16_SameLossForSameItems ==
    \A r \in Ranks : Returned(r) =>
        /\ lossRet[r] = train_iteration(train_pairs[r], args.backprop_batch_size, max_train_qty[r]).loss
        /\ \A b1 \in BackpropSizes, b2 \in BackpropSizes :
              (train_iteration(train_pairs[r], b1, max_train_qty[r]).total_qty
                  = train_iteration(train_pairs[r], b2, max_train_qty[r]).total_qty)
              => train_iteration(train_pairs[r], b1, max_train_qty[r]).loss
                    = train_iteration(train_pairs[r], b2, max_train_qty[r]).loss

\* an epoch over four pairs in records of two, whose quota both record sizes divide
C16_Witness ==
    /\ args.device_qty = 1 /\ args.backprop_batch_size = 2
    /\ pc[0] = "decay"
    /\ max_train_qty[0] = 4
    /\ Len(lossLog[0]) = 2
    /\ lossRet[0] = <<5, 2>>
    /\ train_iteration(train_pairs[0], 1, 4).total_qty = train_iteration(train_pairs[0], 2, 4).total_qty

\* parameter i belongs to the transformer body of an encoder
IsBodyParam(i) == ParamPath(i)[2] = "bert"

\* the optimizer groups of rank r that hold parameter i
GroupsOf(r, i) == {g \in 1 .. Len(optimizer[r]) : i \in optimizer[r][g].params}

\* C17: the optimizer of every epoch has two disjoint groups that cover the
\* trainable parameters; the transformer parameters of both encoders are in
\* the group at bert_lr and the head parameters in the group at lr.
C17_BodyAtBertLrHeadAtLr ==
    \A r \in Ranks : optimizer[r] # <<>> =>
        /\ Len(optimizer[r]) = 2
        /\ \A i \in TrainableParams : Cardinality(GroupsOf(r, i)) = 1
        /\ \A i \in TrainableParams : \A g \in GroupsOf(r, i) :
              optimizer[r][g].lr = (IF IsBodyParam(i) THEN "bert_lr" ELSE "lr")

\* C19: a multi-device run without a master port never gets past the port test:
\* main_cli ends with exit status 1 with no subprocess spawned, no do_train
\* called, no process group entered and no record trained on; exit status 1
\* for a missing port is reached in no other case, so a single-device run
\* without a master port runs normally.
C19_MissingPortExitsBeforeAnything ==
    /\ (args.device_qty > 1 /\ args.master_port = "None") =>
          /\ mainPc \in {"check_port", "exit_1"}
          /\ processes = <<>> /\ runLog = <<>>
          /\ \A r \in Ranks : pc[r] = "idle" /\ ~pgInit[r] /\ total_qty[r] = 0 /\ optSteps[r] = 0
    /\ mainPc = "exit_1" => (args.device_qty > 1 /\ args.master_port = "None")
    /\ (args.device_qty = 1 \/ args.master_port # "None") => mainPc # "exit_1"

C19_Witness == mainPc = "exit_1" /\ args.device_qty = 3 /\ args.master_port = "None"

\* C18: a forward call of an encoder on a batch of sequence length 0 raises
\* nothing, does not call the transformer and returns an all-zero BATCH x dim
\* matrix.
C18_ZeroLengthGivesZeroVector ==
    (call.op = "forward" /\ call.LEN = 0) =>
        /\ call.out.raised = "none"
        /\ ~call.out.bert_called
        /\ call.out.shape = <<call.BATCH, dim>>
        /\ call.out.zero

\* the own files of both encoders exist
BothOwnFiles(path) == \A e \in Encoders : \E f \in disk : f.path = EncPath(path, e)

\* the file a load from path takes encoder e from
C20_Source(path, e) == IF BothOwnFiles(path) THEN EncPath(path, e) ELSE path

\* C20: right after save(path) the two files path_query and path_doc exist
\* and each holds exactly the entries of its encoder that require gradient,
\* with their values; a load(path) that finds both files sets every entry of
\* each encoder that its own file holds to the file's value and leaves the
\* rest; a load(path) that misses one of the two files does the same from the
\* file at path for both encoders, and raises only if that file is missing too.
C20_SaveLoadPerEncoder ==
    /\ call.op = "save" =>
          \A e \in Encoders :
              \E f \in disk :
                  /\ f.path = EncPath(call.path, e)
                  /\ DOMAIN f.state = {k \in Keys : enc[e][k].requires_grad}
                  /\ \A k \in DOMAIN f.state : f.state[k] = enc[e][k].data
    /\ (call.op = "load" /\ call.raised = "none") =>
          \A e \in Encoders :
              \E f \in disk :
                  /\ f.path = C20_Source(call.path, e)
                  /\ \A k \in Keys :
                        /\ enc[e][k].requires_grad = call.pre[e][k].requires_grad
                        /\ enc[e][k].data = (IF k \in DOMAIN f.state THEN f.state[k]
                                             ELSE call.pre[e][k].data)
    /\ (call.op = "load" /\ call.raised # "none") =>
          /\ ~BothOwnFiles(call.path)
          /\ \A f \in disk : f.path # call.path
          /\ enc = call.pre

\* a load that brought trained parameters back from files a save wrote while
\* the query encoder's transformer was frozen
C20_Witness ==
    /\ call.op = "load" /\ call.raised = "none"
    /\ BothOwnFiles(call.path)
    /\ \E f \in disk : f.path = "m_query" /\ DOMAIN f.state = {"fc.weight"} /\ f.state["fc.weight"] = 1
    /\ \E f \in disk : f.path = "m_doc" /\ DOMAIN f.state = Keys
    /\ call.pre["query_encoder"]["fc.weight"].data = 0
    /\ enc["query_encoder"]["fc.weight"].data = 1

\* C22: an optimizer step is pending exactly when the items accumulated since
\* the previous step (or the start of the epoch) have reached batch_size, so
\* at every other position fewer than batch_size items are accumulated; the
\* accumulated gradients are those of the items since the last step, every
\* item of the epoch is either applied by a step or still accumulated, and
\* what is left at the end of an epoch is zeroed at the start of the next
\* without being applied.
C22_StepIffThresholdReached ==
    \A r \in Ranks :
        /\ pc[r] = "opt_step" <=> gradAcc[r] >= args.batch_size
        /\ gradAcc[r] = total_qty[r] - total_prev_qty[r]
        /\ appliedItems[r] + gradAcc[r] = total_qty[r]
        /\ appliedItems[r] = total_prev_qty[r]
        /\ (pc[r] = "record" /\ total_qty[r] = 0) => gradAcc[r] = 0

\* an epoch ended with one item accumulated, and the next epoch has zeroed it
C22_Witness ==
    \E r \in Ranks :
        /\ epoch[r] = 1 /\ pc[r] = "record" /\ total_qty[r] = 0
        /\ discarded[r] = 1
        /\ gradAcc[r] = 0

\* C23: in every epoch the optimizer steps, and the scheduler steps, taken by
\* train_iteration never exceed lr_steps, the total_steps of the scheduler.
C23_StepsWithinLrSteps ==
    \A r \in Ranks : pc[r] \notin {"idle", "init_pg", "pg_wait"} =>
        /\ optSteps[r] <= lr_steps(max_train_qty[r])
        /\ schedSteps[r] <= lr_steps(max_train_qty[r])

\* an epoch that went past its quota and took as many optimizer and scheduler
\* steps as the scheduler allows
C23_Witness ==
    \E r \in Ranks :
        /\ pc[r] = "post" /\ args.warmup_pct
        /\ total_qty[r] > max_train_qty[r]
        /\ optSteps[r] = 2 /\ schedSteps[r] = 2
        /\ lr_steps(max_train_qty[r]) = 2

\* C24: in a single-device run no process group is entered or destroyed,
\* avg_model_params is never called, nothing is spawned, and do_train is
\* called at most once, and exactly once when the rank loop is over: in the
\* invoking process, as master, on all the training pairs.
C24_SingleDeviceNoCollectives ==
    args.device_qty = 1 =>
        /\ ~pgInit[0] /\ ~pgDestroyed
        /\ arCnt[0] = 0 /\ arDone[0] = 0 /\ arIn = <<>> /\ postAvg[0] = 0
        /\ \A e \in 0 .. (args.epoch_qty - 1) : avgCalls[0][e] = 0
        /\ syncAt[0] = {}
        /\ pc[0] \notin {"pg_wait", "ar_mid", "ar_post"}
        /\ processes = <<>> /\ joinIdx = 0
        /\ Len(runLog) <= 1
        /\ runLog # <<>> => (runLog[1] = <<0, "main", TRUE>> /\ train_pairs[0] = train_pairs_all)
        /\ mainPc \in {"do_train", "join", "destroy", "exit", "failed"} => Len(runLog) = 1

C24_Witness ==
    /\ args.device_qty = 1 /\ args.train_pair_qty = 4
    /\ mainPc = "exit"
    /\ epoch[0] = 2 /\ optSteps[0] = 2
    /\ train_pairs[0] = <<1, 2, 3, 4>>

\* C25: only rank 0 is ever at validation, at the cache clearing or at a
\* model write; every file on disk was written by rank 0; the scores logged
\* are those of the master's own epochs, one each, and top_valid_score is
\* set only once the master has written model.best.
C25_OnlyMasterValidatesAndWrites ==
    /\ \A r \in Ranks :
          pc[r] \in {"validate", "clear_cache", "save_best", "snapshot"} => r = 0
    /\ \A f \in files : f.writer = 0
    /\ Len(scoreLog) = epoch[0] + (IF pc[0] \in {"clear_cache", "save_best", "snapshot", "decay"}
                                   THEN 1 ELSE 0)
    /\ top_valid_score # <<>> => \E f \in files : f.path = "model.best" /\ f.writer = 0
    /\ \A f \in files, g \in files : f.path = g.path => f = g

\* three ranks have finished two epochs and the master's files are on disk
C25_Witness ==
    /\ args.device_qty = 3
    /\ \A r \in Ranks : pc[r] = "done" /\ epoch[r] = 2
    /\ \E f \in files : f.path = "model.best"
    /\ \E f \in files : f.path = "model.1"
    /\ \E f \in files : f.path = "1.run"
    /\ Len(scoreLog) = 2

\* the master is validating or writing the files of its current epoch
MasterValidates == pc[0] \in {"validate", "clear_cache", "save_best", "snapshot"}

\* the epoch the counters of rank r belong to: the one it is in, or the one it
\* has just left
CountedEpoch(r) == IF pc[r] \in {"epoch", "done"} /\ epoch[r] > 0 THEN epoch[r] - 1 ELSE epoch[r]

\* C26: in a multi-device run, while the master validates epoch e no other
\* rank is further than epoch e + 1, and a rank in epoch e + 1 has taken at
\* most one optimizer step there; and no rank ever has more than
\* batch_sync_qty optimizer steps since its last completed averaging.
C26_RunAheadAtMostOneStep ==
    args.device_qty > 1 =>
        /\ \A r \in Ranks \ {0} : MasterValidates =>
              /\ CountedEpoch(r) <= epoch[0] + 1
              /\ CountedEpoch(r) = epoch[0] + 1 => optSteps[r] <= 1
        /\ \A r \in Ranks : stepsSinceAvg[r] <= args.batch_sync_qty

\* a text with spaces for its newlines and carriage returns
C21_Spaced(s) == [i \in 1 .. Len(s) |-> IF s[i] = NL \/ s[i] = CR THEN " " ELSE s[i]]

\* the text of a key or value as Python prints it
C21_Text(v) == IF v.type = "int" THEN <<Digits[v.num + 1]>> ELSE v.text

RECURSIVE C21_Split(_)
\* the lines of a text: its pieces between newlines
C21_Split(s) ==
    IF \A i \in 1 .. Len(s) : s[i] # NL THEN <<s>>
    ELSE LET n == CHOOSE i \in 1 .. Len(s) : s[i] = NL /\ \A j \in 1 .. (i - 1) : s[j] # NL
         IN  <<SubSeq(s, 1, n - 1)>> \o C21_Split(SubSeq(s, n + 1, Len(s)))

\* C21: when the script has written its output for a list input: an index
\* that is negative or not below the length of the list gives the text #OOR
\* and nothing else; an index in range gives no text for an entry without
\* keys and otherwise one line per key of the entry, in order, each being the
\* key, a colon and the value with every newline and carriage return of key
\* and value turned into a space.
C21_OorOrOneLinePerKey ==
    confPc = "done" =>
        /\ outFile.written
        /\ IF entryId < 0 \/ entryId >= Len(inpData.items)
           THEN outFile.content = OOR
           ELSE LET entry == inpData.items[entryId + 1]
                IN  IF entry = <<>> THEN outFile.content = <<>>
                    ELSE /\ Len(C21_Split(outFile.content)) = Len(entry)
                         /\ \A i \in 1 .. Len(entry) :
                               C21_Split(outFile.content)[i]
                                   = C21_Spaced(C21_Text(entry[i][1])) \o <<":">>
                                         \o C21_Spaced(C21_Text(entry[i][2]))

\* the second entry of a list of two, with a carriage return as key and a
\* newline as value in its first item and an integer in its second
C21_Witness ==
    /\ confPc = "done"
    /\ entryId = 1 /\ Len(inpData.items) = 2
    /\ Len(inpData.items[2]) = 2
    /\ inpData.items[2][1][1].text = <<CR>>
    /\ inpData.items[2][1][2].text = <<NL>>
    /\ inpData.items[2][2][2].type = "int"
    /\ outFile.content = <<" ", ":", " ", NL, "a", ":", "1">>

====
